---- MODULE Spec2Model ----
(***************************************************************************)
(* The graded-encoding wrapper: Encoded_Parent (the Parameter Context) and *)
(* Encoded_Element (the Encoding), in its two versions:                    *)
(*   "params"  src/wrapper/wrapper.pyx over the gghlite_params_t /         *)
(*             gghlite_sk_t interface of src/unnamed/part_001;             *)
(*   "pk"      src/unnamed/part_000 over the gghlite_pk_t interface of     *)
(*             src/wrapper/gghlite.pxd.                                    *)
(* The native engine (gghlite, flint) is known only by the declarations    *)
(* of those two .pxd files; it is modelled by what the declarations say.   *)
(***************************************************************************)
EXTENDS Integers, Sequences, FiniteSets, TLC

VARIABLES
  variant,   \* which version of the wrapper is loaded
  ctx,       \* the Encoded_Parent objects
  elems,     \* the Encoded_Element objects, in the order of construction
  last,      \* the latest Encoded_Element operation and its native calls
  crashed,   \* the process was brought down by undefined behaviour
  sage,      \* the variables of the test.sage script
  twin       \* the Encodings two equally configured Contexts produced

vars == <<variant, ctx, elems, last, crashed, sage, twin>>

aux == <<sage, twin>>

(* ---------------------------- bounds ----------------------------------- *)

MaxKappa == 3      \* largest multilinearity degree (the width of a level tag)
MaxLevels == 2     \* largest kappa or level handed to the free-running wrapper
MaxCalls == 3      \* calls made on each of the twin Contexts
MaxSeed == 1       \* seeds 0..MaxSeed
MaxElems == 3      \* Encoded_Element objects constructed in a run
MaxDraws == 3      \* draws from one randstate
Over == 2          \* a slot's use count saturates here ("used more than once")
MaxPlain == 2      \* largest x handed to Encoded_Element

(* ------------------------ program constants ---------------------------- *)

DefaultLamb == 20  \* lamb=20 in Encoded_Parent.__init__
DefaultSeed == 0   \* seed=0 in Encoded_Parent.__init__
Rerand == 0        \* cdef int rerand = 0 in Encoded_Element.__init__
EncLevelK == 1     \* the k passed to gghlite_enc_set_gghlite_clr

Variants == {"params", "pk"}
CtxIds == 1..2
ElemIds == 1..MaxElems
Slots == 0..(MaxKappa - 1)
Seeds == 0..MaxSeed
Kappas == {-1} \cup (1..MaxLevels)  \* -1: not convertible to size_t
Levels == 0..MaxLevels              \* the level argument, in and out of range
Xs == (-1)..MaxPlain                \* the x argument

Min(a, b) == IF a < b THEN a ELSE b

(* ------------------------- the native engine --------------------------- *)

ZeroLv == [i \in Slots |-> 0]

\* flint_randinit_seed: the state is the seed and the number of draws made.
flint_randinit_seed(seed) == [init |-> TRUE, seed |-> seed, n |-> 0]

NoRand == [init |-> FALSE, seed |-> 0, n |-> 0]

Draw(rand) == <<rand.seed, rand.n>>

Advance(rand) == [rand EXCEPT !.n = @ + 1]

\* The plaintext modulus the engine derives; the caller never supplies it.
PlainModulus(lamb, kappa, seed) == 2 + ((lamb + kappa + seed) % 2)

\* gghlite_init: a secret instance generated from (lamb, kappa, flags) with
\* the randomness of randstate; its public part is sk.par.
gghlite_init(lamb, kappa, asym, rand) ==
  [par |-> [key |-> <<lamb, kappa, asym, Draw(rand)>>,
            p |-> PlainModulus(lamb, kappa, rand.seed),
            kappa |-> kappa, asym |-> asym],
   rand |-> Advance(rand)]

NoPar == [key |-> <<>>, p |-> 1, kappa |-> 0, asym |-> FALSE]

\* What a native call leaves in rop when its arguments do not fit the
\* parameters it is given.
Junk == [key |-> <<>>, pt |-> 0, lv |-> ZeroLv, rnd |-> {}]

\* gghlite_enc_init: the encoding of zero at level 0.
gghlite_enc_init(par) == [key |-> par.key, pt |-> 0, lv |-> ZeroLv, rnd |-> {}]

\* gghlite_enc_set_gghlite_clr(rop, sk, f, k, i, rerand, randstate):
\* f at level k in group G_i, re-randomised if requested.
gghlite_enc_set_gghlite_clr(par, f, k, i, rerand, rand) ==
  IF i \in Slots /\ i < par.kappa
  THEN [value |-> [key |-> par.key, pt |-> f % par.p,
                   lv |-> [j \in Slots |-> IF j = i THEN Min(k, Over) ELSE 0],
                   rnd |-> IF rerand = 1 THEN {Draw(rand)} ELSE {}],
        rand |-> IF rerand = 1 THEN Advance(rand) ELSE rand]
  ELSE [value |-> Junk, rand |-> rand]

\* gghlite_sample(rop, pk, k, randstate): a fresh random encoding at level k
\* (symmetric grading: the level is kept in slot 0).
gghlite_sample(par, k, rand) ==
  [value |-> [key |-> par.key, pt |-> (rand.seed + rand.n) % par.p,
              lv |-> [j \in Slots |-> IF j = 0 THEN Min(k, Over) ELSE 0],
              rnd |-> {Draw(rand)}],
   rand |-> Advance(rand)]

LvAdd(a, b) == [j \in Slots |-> Min(a[j] + b[j], Over)]

Fits(par, f, g) == f.key = par.key /\ g.key = par.key

\* gghlite_enc_mul / add / sub: h = f (*/+/-) g under the given parameters.
\* The engine tracks no level: the level of h is whatever f and g imply.
gghlite_enc_mul(par, f, g) ==
  IF Fits(par, f, g)
  THEN [key |-> par.key, pt |-> (f.pt * g.pt) % par.p,
        lv |-> LvAdd(f.lv, g.lv), rnd |-> f.rnd \cup g.rnd]
  ELSE Junk

gghlite_enc_add(par, f, g) ==
  IF Fits(par, f, g) /\ f.lv = g.lv
  THEN [key |-> par.key, pt |-> (f.pt + g.pt) % par.p,
        lv |-> f.lv, rnd |-> f.rnd \cup g.rnd]
  ELSE Junk

gghlite_enc_sub(par, f, g) ==
  IF Fits(par, f, g) /\ f.lv = g.lv
  THEN [key |-> par.key, pt |-> (f.pt - g.pt) % par.p,
        lv |-> f.lv, rnd |-> f.rnd \cup g.rnd]
  ELSE Junk

\* The top level: every one of the kappa groups used exactly once
\* (asymmetric), or level kappa (symmetric).
TopLevel(par, lv) ==
  IF par.asym
  THEN \A j \in Slots : lv[j] = (IF j < par.kappa THEN 1 ELSE 0)
  ELSE lv[0] = par.kappa /\ lv[0] < Over

\* gghlite_enc_is_zero: "Return 1 if f is an encoding of zero at level ?".
\* The answer is the plaintext's at the top level and carries no meaning
\* anywhere else.
gghlite_enc_is_zero(par, f) ==
  IF f.key = par.key /\ TopLevel(par, f.lv) THEN {f.pt = 0} ELSE BOOLEAN

(* --------------------------- conversions ------------------------------- *)

DigitChars == <<"0", "1", "2", "3", "4", "5", "6", "7", "8", "9">>

RECURSIVE Digits(_)
Digits(n) ==
  IF n < 10 THEN <<DigitChars[n + 1]>>
  ELSE Append(Digits(n \div 10), DigitChars[(n % 10) + 1])

\* x.__repr__() of an integer: an optional sign and its decimal digits.
Repr(x) == IF x < 0 THEN <<"-">> \o Digits(0 - x) ELSE Digits(x)

DigitOf(ch) == CHOOSE d \in 0..9 : DigitChars[d + 1] = ch

RECURSIVE DigitsValue(_)
DigitsValue(d) ==
  IF d = <<>> THEN 0
  ELSE 10 * DigitsValue(SubSeq(d, 1, Len(d) - 1)) + DigitOf(d[Len(d)])

\* fmpz_set_str(f, s, 10)
fmpz_set_str(s) ==
  IF s # <<>> /\ s[1] = "-" THEN 0 - DigitsValue(Tail(s)) ELSE DigitsValue(s)

(* ------------------------ Encoded_Parent ------------------------------- *)

NoCtx ==
  [st |-> "none", kappa |-> 0, lamb |-> 0, mem |-> [pk |-> FALSE, rs |-> FALSE],
   rand |-> NoRand, par |-> NoPar, params |-> "uninit", sk |-> "uninit", p |-> 0,
   rel |-> [params |-> 0, rand |-> 0], wild |-> FALSE]

\* __cinit__. params: fmpz_init(self.p), the handles are embedded in the
\* object. pk: both handles are PyMem_Malloc'ed and MemoryError is raised
\* when either is NULL.
Parent_cinit_rec(v, pkOK, rsOK) ==
  IF v = "params"
  THEN [NoCtx EXCEPT !.st = "cinit", !.mem = [pk |-> TRUE, rs |-> TRUE]]
  ELSE [NoCtx EXCEPT !.st = IF pkOK /\ rsOK THEN "cinit" ELSE "failed",
                     !.mem = [pk |-> pkOK, rs |-> rsOK]]

\* (a randomness state seeded by the object instead of the seed)
Parent_randinit_per_object(c, seed) == flint_randinit_seed(c)

\* The state flint_randinit_seed(self.randstate, seed, 1) leaves in the
\* Context self.
Parent_randinit(c, seed) == flint_randinit_seed(seed)

\* GGHLITE_FLAGS_ASYMMETRIC is among the flags of wrapper.pyx; flags = 0 in
\* the pk version.
Parent_flags_asym(v) == v = "params"

\* Whether __init__ clears the secret instance before it returns.
Parent_clears_sk(v) == v = "pk"

\* __init__(base, kappa, lamb, seed). `sig` is where a signal caught by
\* sig_on() interrupts it: "none", or "init" inside gghlite_init.
Parent_init_rec(c, v, rec, kappa, lamb, seed, sig) ==
  IF kappa < 0
  THEN \* self.kappa = kappa raises OverflowError (size_t)
       [rec EXCEPT !.st = "failed"]
  ELSE LET rs == Parent_randinit(c, seed)
           g == gghlite_init(lamb, kappa, Parent_flags_asym(v), rs)
       IN IF sig = "init"
          THEN [rec EXCEPT !.st = "failed", !.kappa = kappa, !.lamb = lamb,
                           !.rand = rs, !.sk = "live"]
          ELSE [rec EXCEPT !.st = "ready", !.kappa = kappa, !.lamb = lamb,
                           !.rand = g.rand, !.par = g.par, !.params = "ref",
                           !.p = IF v = "params" THEN g.par.p ELSE 0,
                           !.sk = IF Parent_clears_sk(v) THEN "cleared" ELSE "live"]

\* getP
getP(rec) == rec.p

\* Which handles __dealloc__ hands to gghlite_params_clear / gghlite_pk_clear
\* and to flint_randclear.
Parent_dealloc_clears(v, rec) ==
  [params |-> IF v = "params" THEN TRUE ELSE rec.mem.pk,
   rand |-> IF v = "params" THEN TRUE ELSE rec.mem.rs]

Parent_dealloc_rec(v, rec) ==
  LET cl == Parent_dealloc_clears(v, rec)
  IN [NoCtx EXCEPT !.st = "dead", !.sk = rec.sk,
        !.rel = [params |-> rec.rel.params + (IF cl.params THEN 1 ELSE 0),
                 rand |-> rec.rel.rand + (IF cl.rand THEN 1 ELSE 0)],
        !.wild = (cl.params /\ rec.params # "ref") \/ (cl.rand /\ ~rec.rand.init),
        !.params = IF cl.params /\ rec.params = "ref" THEN "cleared" ELSE rec.params,
        !.rand = [NoRand EXCEPT !.init = rec.rand.init /\ ~cl.rand]]

(* ------------------------ Encoded_Element ------------------------------ *)

NoElem == [live |-> FALSE, freed |-> FALSE, parent |-> 0, value |-> Junk]

NoOp ==
  [op |-> "none", a |-> 0, b |-> 0, out |-> 0, res |-> FALSE,
   native |-> {}, level |-> 0, rerand |-> 0]

\* The (k, i) = (level, group) pair __init__ hands to the engine for its
\* `level` argument: level 1 in group G_level.
Element_init_ki(level) == [k |-> EncLevelK, i |-> level]

\* __init__(parent, x, level): the native calls it makes, the value it
\* leaves in self.value and the Context's randstate afterwards.
\* params: gghlite_enc_init, then gghlite_enc_set_gghlite_clr with the
\* secret instance; pk: gghlite_enc_init, then gghlite_sample at level 0
\* (x is not used).
Element_init_eff(v, rec, x, level) ==
  IF v = "params"
  THEN LET ki == Element_init_ki(level)
           r == gghlite_enc_set_gghlite_clr(rec.par, fmpz_set_str(Repr(x)),
                                            ki.k, ki.i, Rerand, rec.rand)
       IN [value |-> r.value, rand |-> r.rand, rerand |-> Rerand,
           native |-> {"gghlite_enc_init", "gghlite_enc_set_gghlite_clr"}]
  ELSE LET r == gghlite_sample(rec.par, 0, rec.rand)
       IN [value |-> r.value, rand |-> r.rand, rerand |-> 0,
           native |-> {"gghlite_enc_init", "gghlite_sample"}]

\* tmp_fmpz is handed to fmpz_set_str without fmpz_init: the read of the
\* uninitialised fmpz either goes unnoticed or brings the process down.
Element_init_outcomes(v) == IF v = "params" THEN {"ok", "crash"} ELSE {"ok"}

\* How _add_, _mul_ and _sub_ get their result object: _new_c (params:
\* gghlite_enc_init only) or Encoded_Element(self.parent()) (pk: __init__,
\* which samples).
Element_new_eff(v, rec) ==
  IF v = "params"
  THEN [value |-> gghlite_enc_init(rec.par), rand |-> rec.rand,
        native |-> {"gghlite_enc_init"}]
  ELSE LET r == Element_init_eff(v, rec, 0, 0)
       IN [value |-> r.value, rand |-> r.rand, native |-> r.native]

\* (_mul_ running the native addition)
Element_mul_value_adds(par, f, g) == gghlite_enc_add(par, f, g)

\* The native operation _add_ / _mul_ / _sub_ runs, on the parameters of
\* self.parent(), self.value and right.value.
Element_mul_value(par, f, g) == gghlite_enc_mul(par, f, g)

Element_add_value(par, f, g) == gghlite_enc_add(par, f, g)

Element_sub_value(par, f, g) == gghlite_enc_sub(par, f, g)

Element_op_value(op, par, f, g) ==
  CASE op = "mul" -> Element_mul_value(par, f, g)
    [] op = "add" -> Element_add_value(par, f, g)
    [] OTHER -> Element_sub_value(par, f, g)

Element_op_native(op) ==
  CASE op = "mul" -> "gghlite_enc_mul"
    [] op = "add" -> "gghlite_enc_add"
    [] OTHER -> "gghlite_enc_sub"

\* __nonzero__: not gghlite_enc_is_zero(self.parent().params, self.value)
Element_nonzero_outcomes(par, f) == {~z : z \in gghlite_enc_is_zero(par, f)}

(* ------------------------------ actions -------------------------------- *)

SageIdle ==
  [pc |-> "idle", levels |-> 0, plaintext |-> <<>>, result |-> 0,
   encoding |-> <<>>, value1 |-> Junk, encoded_ones |-> <<>>, value2 |-> Junk,
   maybe_zero |-> Junk, works |-> FALSE]

NoTwin == [c \in CtxIds |-> <<>>]

\* Objects are numbered in the order of their construction.
Free == {e \in ElemIds : ~elems[e].live /\ ~elems[e].freed}

FirstFree == CHOOSE e \in Free : \A f \in Free : e <= f

\* (an Encoding that stores its Context without holding a reference to it)
Parent_refs_unowned(c, es) == 0

\* The references the Encodings hold on the Context c: one per Encoding, in
\* _parent, set by RingElement.__init__(self, parent) and by
\* x._parent = self._parent, and dropped when the Encoding goes.
Parent_refs(c, es) == Cardinality({e \in ElemIds : es[e].live /\ es[e].parent = c})

Init ==
  /\ variant \in Variants
  /\ ctx = [c \in CtxIds |-> NoCtx]
  /\ elems = [e \in ElemIds |-> NoElem]
  /\ last = NoOp
  /\ crashed = FALSE
  /\ sage = SageIdle
  /\ twin = NoTwin

Parent_cinit(c, pkOK, rsOK) ==
  /\ ~crashed
  /\ ctx[c].st = "none"
  /\ variant = "params" => pkOK /\ rsOK
  /\ ctx' = [ctx EXCEPT ![c] = Parent_cinit_rec(variant, pkOK, rsOK)]
  /\ c > 1 => ctx[c - 1].st # "none"
  /\ last' = NoOp
  /\ UNCHANGED <<variant, elems, crashed, aux>>

Parent_init(c, kappa, seed, sig) ==
  /\ ~crashed
  /\ ctx[c].st = "cinit"
  /\ ctx' = [ctx EXCEPT ![c] =
               Parent_init_rec(c, variant, ctx[c], kappa, DefaultLamb, seed, sig)]
  /\ last' = NoOp
  /\ UNCHANGED <<variant, elems, crashed, aux>>

\* __dealloc__ runs when the last reference goes; every Encoded_Element
\* holds one in _parent. Clearing a handle that was never initialised is
\* undefined: it passes unnoticed or brings the process down.
Parent_dealloc(c, outcome) ==
  /\ ~crashed
  /\ ctx[c].st \in {"cinit", "ready", "failed"}
  /\ Parent_refs(c, elems) = 0
  /\ LET rec == Parent_dealloc_rec(variant, ctx[c])
     IN /\ outcome = "crash" => rec.wild
        /\ ctx' = [ctx EXCEPT ![c] = rec]
        /\ crashed' = (outcome = "crash")
  /\ last' = NoOp
  /\ UNCHANGED <<variant, elems, aux>>

Element_init(c, x, level, outcome) ==
  /\ ~crashed
  /\ ctx[c].st = "ready"
  /\ Free # {}
  /\ outcome \in Element_init_outcomes(variant)
  /\ variant = "pk" => (x = 0 /\ level = 0 /\ ctx[c].rand.n < MaxDraws)
  /\ LET r == Element_init_eff(variant, ctx[c], x, level)
         e == FirstFree
     IN IF outcome = "crash"
        THEN /\ crashed' = TRUE
             /\ last' = [NoOp EXCEPT !.op = "encode", !.level = level,
                                     !.native = {"gghlite_enc_init"}]
             /\ UNCHANGED <<ctx, elems>>
        ELSE /\ elems' = [elems EXCEPT ![e] =
                            [live |-> TRUE, freed |-> FALSE, parent |-> c, value |-> r.value]]
             /\ ctx' = [ctx EXCEPT ![c].rand = r.rand]
             /\ last' = [NoOp EXCEPT !.op = "encode", !.out = e,
                                     !.level = level, !.rerand = r.rerand,
                                     !.native = r.native]
             /\ UNCHANGED crashed
  /\ UNCHANGED <<variant, aux>>

Element_dealloc(e) ==
  /\ ~crashed
  /\ elems[e].live
  /\ elems' = [elems EXCEPT ![e] = [NoElem EXCEPT !.freed = TRUE]]
  /\ last' = NoOp
  /\ UNCHANGED <<variant, ctx, crashed, aux>>

\* self._add_(right), self._mul_(right), self._sub_(right)
Element_binop(op, a, b) ==
  /\ ~crashed
  /\ elems[a].live /\ elems[b].live
  /\ Free # {}
  /\ LET c == elems[a].parent
         n == Element_new_eff(variant, ctx[c])
         e == FirstFree
     IN /\ variant = "pk" => ctx[c].rand.n < MaxDraws
        /\ elems' = [elems EXCEPT ![e] =
             [live |-> TRUE, freed |-> FALSE, parent |-> c,
              value |-> Element_op_value(op, ctx[c].par, elems[a].value,
                                         elems[b].value)]]
        /\ ctx' = [ctx EXCEPT ![c].rand = n.rand]
        /\ last' = [NoOp EXCEPT !.op = op, !.a = a, !.b = b, !.out = e,
                                !.native = n.native \cup {Element_op_native(op)}]
  /\ UNCHANGED <<variant, crashed, aux>>

Element_add(a, b) == Element_binop("add", a, b)

Element_mul(a, b) == Element_binop("mul", a, b)

\* part_000 defines no _sub_
Element_sub(a, b) == variant = "params" /\ Element_binop("sub", a, b)

\* bool(self)
Element_nonzero(a, r) ==
  /\ ~crashed
  /\ elems[a].live
  /\ r \in Element_nonzero_outcomes(ctx[elems[a].parent].par, elems[a].value)
  /\ last' = [NoOp EXCEPT !.op = "bool", !.res = r,
                          !.native = {"gghlite_enc_is_zero"}]
  /\ UNCHANGED <<variant, ctx, elems, crashed, aux>>

Next ==
  \/ \E c \in CtxIds, pkOK \in BOOLEAN, rsOK \in BOOLEAN : Parent_cinit(c, pkOK, rsOK)
  \/ \E c \in CtxIds, kappa \in Kappas, seed \in Seeds, sig \in {"none", "init"} :
       Parent_init(c, kappa, seed, sig)
  \/ \E c \in CtxIds, outcome \in {"ok", "crash"} : Parent_dealloc(c, outcome)
  \/ \E c \in CtxIds, x \in Xs, level \in Levels, outcome \in {"ok", "crash"} :
       Element_init(c, x, level, outcome)
  \/ \E e \in ElemIds : Element_dealloc(e)
  \/ \E a \in ElemIds, b \in ElemIds : Element_add(a, b)
  \/ \E a \in ElemIds, b \in ElemIds : Element_mul(a, b)
  \/ \E a \in ElemIds, b \in ElemIds : Element_sub(a, b)
  \/ \E a \in ElemIds, r \in BOOLEAN : Element_nonzero(a, r)

Spec == Init /\ [][Next]_vars

(* ----------------------------- test.sage ------------------------------- *)

RECURSIVE Product(_, _)
\* reduce(mul, plaintext) in Integers(p)
Product(xs, p) ==
  IF Len(xs) = 1 THEN xs[1] % p
  ELSE (Product(SubSeq(xs, 1, Len(xs) - 1), p) * xs[Len(xs)]) % p

RECURSIVE EncodeAll(_, _, _)
\* [Enc(x, lvl) for x, lvl in zip(xs, lvls)]: the values, and the Context
\* after the calls.
EncodeAll(rec, xs, lvls) ==
  IF xs = <<>> \/ lvls = <<>> THEN [values |-> <<>>, rec |-> rec]
  ELSE LET n == Min(Len(xs), Len(lvls))
           before == EncodeAll(rec, SubSeq(xs, 1, n - 1), SubSeq(lvls, 1, n - 1))
           r == Element_init_eff(variant, before.rec, xs[n], lvls[n])
       IN [values |-> Append(before.values, r.value),
           rec |-> [before.rec EXCEPT !.rand = r.rand]]

RECURSIVE ReduceMul(_, _)
\* reduce(mul, encodings), each product through _mul_
ReduceMul(par, vs) ==
  IF Len(vs) = 1 THEN vs[1]
  ELSE Element_op_value("mul", par, ReduceMul(par, SubSeq(vs, 1, Len(vs) - 1)),
                        vs[Len(vs)])

Range(a, b) == [i \in 1..(b - a) |-> a + i - 1]

Enc == ctx[1]

\* Enc = Encoded_Parent(QQ, levels). The script hands `levels` as kappa and
\* leaves the seed at its default; any kappa >= levels and any seed is let
\* in here.
Sage_create(kappa, seed, levels) ==
  /\ sage.pc = "start"
  /\ levels <= kappa
  /\ ctx' = [ctx EXCEPT ![1] =
       Parent_init_rec(1, variant, Parent_cinit_rec(variant, TRUE, TRUE),
                       kappa, DefaultLamb, seed, "none")]
  /\ sage' = [sage EXCEPT !.pc = "plaintext", !.levels = levels]
  /\ UNCHANGED <<variant, elems, last, crashed, twin>>

\* Plain = Integers(Enc.getP()); plaintext = [Plain.random_element() ...];
\* result = reduce(mul, plaintext)
Sage_plaintext(xs) ==
  /\ sage.pc = "plaintext"
  /\ xs \in [1..sage.levels -> 0..(getP(Enc) - 1)]
  /\ sage' = [sage EXCEPT !.pc = "encoding", !.plaintext = xs,
                          !.result = Product(xs, getP(Enc))]
  /\ UNCHANGED <<variant, ctx, elems, last, crashed, twin>>

\* encoding = [Enc(x, lvl) for x, lvl in zip(plaintext, range(levels))]
Sage_encoding(outcome) ==
  /\ sage.pc = "encoding"
  /\ outcome \in Element_init_outcomes(variant)
  /\ LET r == EncodeAll(Enc, sage.plaintext, Range(0, sage.levels))
     IN IF outcome = "crash"
        THEN crashed' = TRUE /\ sage' = [sage EXCEPT !.pc = "crashed"]
             /\ UNCHANGED ctx
        ELSE /\ sage' = [sage EXCEPT !.pc = "value1", !.encoding = r.values]
             /\ ctx' = [ctx EXCEPT ![1] = r.rec]
             /\ UNCHANGED crashed
  /\ UNCHANGED <<variant, elems, last, twin>>

\* value1 = reduce(mul, encoding)
Sage_value1 ==
  /\ sage.pc = "value1"
  /\ sage' = [sage EXCEPT !.pc = "encoded_ones",
                          !.value1 = ReduceMul(Enc.par, sage.encoding)]
  /\ UNCHANGED <<variant, ctx, elems, last, crashed, twin>>

\* encoded_ones = [Enc(Plain(1), lvl) for lvl in range(1, levels)]
Sage_encoded_ones(outcome) ==
  /\ sage.pc = "encoded_ones"
  /\ outcome \in Element_init_outcomes(variant)
  /\ outcome = "crash" => sage.levels > 1
  /\ LET lvls == Range(1, sage.levels)
         r == EncodeAll(Enc, [i \in 1..Len(lvls) |-> 1], lvls)
     IN IF outcome = "crash"
        THEN crashed' = TRUE /\ sage' = [sage EXCEPT !.pc = "crashed"]
             /\ UNCHANGED ctx
        ELSE /\ sage' = [sage EXCEPT !.pc = "value2", !.encoded_ones = r.values]
             /\ ctx' = [ctx EXCEPT ![1] = r.rec]
             /\ UNCHANGED crashed
  /\ UNCHANGED <<variant, elems, last, twin>>

\* value2 = Enc(result, 0) * reduce(mul, encoded_ones); reduce raises
\* TypeError on an empty list.
Sage_value2(outcome) ==
  /\ sage.pc = "value2"
  /\ outcome \in Element_init_outcomes(variant)
  /\ LET r == Element_init_eff(variant, Enc, sage.result, 0)
     IN IF outcome = "crash"
        THEN crashed' = TRUE /\ sage' = [sage EXCEPT !.pc = "crashed"]
             /\ UNCHANGED ctx
        ELSE /\ ctx' = [ctx EXCEPT ![1].rand = r.rand]
             /\ UNCHANGED crashed
             /\ IF sage.encoded_ones = <<>>
                THEN sage' = [sage EXCEPT !.pc = "TypeError"]
                ELSE sage' = [sage EXCEPT !.pc = "maybe_zero",
                       !.value2 = Element_op_value("mul", Enc.par, r.value,
                                    ReduceMul(Enc.par, sage.encoded_ones))]
  /\ UNCHANGED <<variant, elems, last, twin>>

\* maybe_zero = value1-value2
Sage_maybe_zero ==
  /\ sage.pc = "maybe_zero"
  /\ sage' = [sage EXCEPT !.pc = "print",
       !.maybe_zero = Element_op_value("sub", Enc.par, sage.value1, sage.value2)]
  /\ UNCHANGED <<variant, ctx, elems, last, crashed, twin>>

\* print 'Works: %s' % (not bool(maybe_zero))
Sage_print(r) ==
  /\ sage.pc = "print"
  /\ r \in Element_nonzero_outcomes(Enc.par, sage.maybe_zero)
  /\ sage' = [sage EXCEPT !.pc = "done", !.works = ~r]
  /\ UNCHANGED <<variant, ctx, elems, last, crashed, twin>>

InitTest ==
  /\ variant = "params"
  /\ ctx = [c \in CtxIds |-> NoCtx]
  /\ elems = [e \in ElemIds |-> NoElem]
  /\ last = NoOp
  /\ crashed = FALSE
  /\ sage = [SageIdle EXCEPT !.pc = "start"]
  /\ twin = NoTwin

NextTest ==
  \/ \E kappa \in 1..MaxKappa, seed \in Seeds, levels \in 1..MaxKappa :
       Sage_create(kappa, seed, levels)
  \/ \E xs \in UNION {[1..n -> 0..MaxPlain] : n \in 1..MaxKappa} : Sage_plaintext(xs)
  \/ \E outcome \in {"ok", "crash"} : Sage_encoding(outcome)
  \/ Sage_value1
  \/ \E outcome \in {"ok", "crash"} : Sage_encoded_ones(outcome)
  \/ \E outcome \in {"ok", "crash"} : Sage_value2(outcome)
  \/ Sage_maybe_zero
  \/ \E r \in BOOLEAN : Sage_print(r)

SpecTest == InitTest /\ [][NextTest]_vars

(* ------------------ two equally configured Contexts -------------------- *)

\* Encoded_Parent(base, kappa, lamb, seed) twice, with the same arguments.
Twin_create(kappa, seed) ==
  /\ ~crashed
  /\ \A c \in CtxIds : ctx[c].st = "none"
  /\ ctx' = [c \in CtxIds |->
       Parent_init_rec(c, variant, Parent_cinit_rec(variant, TRUE, TRUE),
                       kappa, DefaultLamb, seed, "none")]
  /\ UNCHANGED <<variant, elems, last, crashed, aux>>

\* The same Encoded_Element(parent, x, level) call on each of the two.
Twin_encode(x, level, outcome) ==
  /\ ~crashed
  /\ \A c \in CtxIds : ctx[c].st = "ready" /\ Len(twin[c]) < MaxCalls
  /\ outcome \in Element_init_outcomes(variant)
  /\ variant = "pk" =>
       (x = 0 /\ level = 0 /\ \A c \in CtxIds : ctx[c].rand.n < MaxDraws)
  /\ IF outcome = "crash"
     THEN crashed' = TRUE /\ UNCHANGED <<ctx, twin>>
     ELSE /\ twin' = [c \in CtxIds |->
                Append(twin[c], Element_init_eff(variant, ctx[c], x, level).value)]
          /\ ctx' = [c \in CtxIds |->
                [ctx[c] EXCEPT !.rand = Element_init_eff(variant, ctx[c], x, level).rand]]
          /\ UNCHANGED crashed
  /\ UNCHANGED <<variant, elems, last, sage>>

\* The same _add_, _mul_ or _sub_ call on each of the two, on the i-th and
\* j-th Encoding each has produced.
Twin_binop(op, i, j) ==
  /\ ~crashed
  /\ \A c \in CtxIds :
       /\ ctx[c].st = "ready" /\ Len(twin[c]) < MaxCalls
       /\ i \in 1..Len(twin[c]) /\ j \in 1..Len(twin[c])
       /\ variant = "pk" => ctx[c].rand.n < MaxDraws
  /\ op = "sub" => variant = "params"
  /\ twin' = [c \in CtxIds |->
        Append(twin[c], Element_op_value(op, ctx[c].par, twin[c][i], twin[c][j]))]
  /\ ctx' = [c \in CtxIds |->
        [ctx[c] EXCEPT !.rand = Element_new_eff(variant, ctx[c]).rand]]
  /\ UNCHANGED <<variant, elems, last, crashed, sage>>

NextTwin ==
  \/ \E kappa \in 1..MaxLevels, seed \in Seeds : Twin_create(kappa, seed)
  \/ \E x \in Xs, level \in Levels, outcome \in {"ok", "crash"} :
       Twin_encode(x, level, outcome)
  \/ \E op \in {"add", "mul", "sub"}, i \in 1..MaxCalls, j \in 1..MaxCalls :
       Twin_binop(op, i, j)

SpecTwin == Init /\ [][NextTwin]_vars

(* ------------------- the lifetimes of the two objects ------------------ *)

\* Contexts and Encodings created, combined and destroyed in any order; the
\* plaintext, the level and the seed, which no lifetime depends on, are held
\* at one value each.
NextLife ==
  \/ \E c \in CtxIds, pkOK \in BOOLEAN, rsOK \in BOOLEAN : Parent_cinit(c, pkOK, rsOK)
  \/ \E c \in CtxIds, kappa \in {-1, 1}, sig \in {"none", "init"} :
       Parent_init(c, kappa, DefaultSeed, sig)
  \/ \E c \in CtxIds, outcome \in {"ok", "crash"} : Parent_dealloc(c, outcome)
  \/ \E c \in CtxIds, outcome \in {"ok", "crash"} :
       Element_init(c, 0, 0, outcome)
  \/ \E e \in ElemIds : Element_dealloc(e)
  \/ \E a \in ElemIds, b \in ElemIds : Element_add(a, b)
  \/ \E a \in ElemIds, b \in ElemIds : Element_mul(a, b)
  \/ \E a \in ElemIds, b \in ElemIds : Element_sub(a, b)
  \/ \E a \in ElemIds, r \in BOOLEAN : Element_nonzero(a, r)

SpecLife == Init /\ [][NextLife]_vars

(* ------------------------- the level discipline ------------------------ *)

RingOps == {"add", "sub", "mul"}

Left == elems[last.a]

Right == elems[last.b]

SameContext == Left.parent = Right.parent

\* The combined tag of a product exceeds kappa or uses a slot twice.
Overflows(par, la, lb) ==
  IF par.asym
  THEN \E j \in Slots : la[j] + lb[j] > (IF j < par.kappa THEN 1 ELSE 0)
  ELSE la[0] + lb[0] > par.kappa

\* The operands of the latest operation break its level rule.
LevelViolation ==
  \/ last.op = "encode" /\ variant = "params" /\ last.out # 0
       /\ last.level >= ctx[elems[last.out].parent].kappa
  \/ last.op \in {"add", "sub"} /\ Left.value.lv # Right.value.lv
  \/ last.op = "mul" /\ Overflows(ctx[Left.parent].par, Left.value.lv, Right.value.lv)

Rejected == last.out = 0 /\ last.native = {}

\* C2: multiply on two Encodings of one Context whose combined level tag
\* exceeds kappa or collides on a used slot fails and returns no result;
\* when it succeeds the result's tag is the union/sum of the operands' tags.
C2_OverflowRejected ==
  (last.op = "mul" /\ SameContext) =>
    IF Overflows(ctx[Left.parent].par, Left.value.lv, Right.value.lv)
    THEN last.out = 0
    ELSE last.out # 0
         /\ elems[last.out].value.lv = LvAdd(Left.value.lv, Right.value.lv)

\* C3: add, sub and multiply on Encodings of two distinct Contexts fail: no
\* result Encoding is produced and no native operation is run on them.
C3_CrossContextRejected ==
  (last.op \in RingOps /\ ~SameContext) => Rejected

\* C4: add and sub on Encodings with differing level tags fail; when they
\* succeed the result carries the operands' level tag.
C4_AddSubSameLevel ==
  (last.op \in {"add", "sub"} /\ SameContext) =>
    IF Left.value.lv # Right.value.lv
    THEN last.out = 0
    ELSE last.out # 0 /\ elems[last.out].value.lv = Left.value.lv

\* C5: an operation whose operands break the level rule is rejected before
\* any native call is made for it, and produces no result.
C5_LevelChecksFirst == LevelViolation => Rejected

\* C6: once Encoded_Parent.__init__ has returned, the secret instance has
\* been cleared, and it exists in no later state.
C6_SecretCleared ==
  \A c \in CtxIds :
    /\ ctx[c].st = "ready" => ctx[c].sk = "cleared"
    /\ ctx[c].st = "dead" => ctx[c].sk # "live"

\* C7: when a Context is gone, its parameter handle and its randomness state
\* were each released once if they had been initialised and not at all if
\* they had not, and nothing acquired during creation is left unreleased.
C7_ReleasedExactlyOnce ==
  \A c \in CtxIds : ctx[c].st = "dead" =>
    /\ ~ctx[c].wild
    /\ ctx[c].rel.params <= 1 /\ ctx[c].rel.rand <= 1
    /\ ctx[c].params # "ref" /\ ~ctx[c].rand.init
    /\ ctx[c].sk # "live"

\* C8: add, sub, multiply and bool leave every Context's randomness state
\* and public parameters as they were.
C8_RandomnessFrame ==
  [][last'.op \in RingOps \cup {"bool"} =>
       \A c \in CtxIds : ctx'[c].rand = ctx[c].rand /\ ctx'[c].par = ctx[c].par]_vars

\* Whether the constructor took a path that draws fresh randomness.
Rerandomized(l) == l.rerand = 1 \/ "gghlite_sample" \in l.native

\* C9: two successive encode calls on one Context with the same plaintext
\* and level take the re-randomizing path and yield Encodings whose native
\* representations differ.
C9_EncodeFresh ==
  [][(/\ last.op = "encode" /\ last'.op = "encode"
      /\ last.out # 0 /\ last'.out # 0
      /\ elems'[last.out].parent = elems'[last'.out].parent
      /\ elems'[last.out].value.pt = elems'[last'.out].value.pt
      /\ elems'[last.out].value.lv = elems'[last'.out].value.lv)
     => /\ Rerandomized(last')
        /\ elems'[last.out].value # elems'[last'.out].value]_vars

Tag(n) == [j \in Slots |-> IF j < n THEN 1 ELSE 0]

\* C1 (as amended): in test.sage the product of the encodings of x0..x(k-1)
\* at levels 0..k-1 encodes their product mod p under the tag of the levels
\* 0..k-1, and when k = kappa, so that the tag is the top level, it minus
\* the product of encode(result, 0) with the encoded ones zero-tests as zero.
C1_TopLevelProduct ==
  /\ sage.pc \in {"encoded_ones", "value2", "maybe_zero", "print", "done"} =>
       /\ sage.value1.key = Enc.par.key
       /\ sage.value1.pt = sage.result
       /\ sage.value1.lv = Tag(sage.levels)
  /\ (sage.pc = "done" /\ sage.levels = Enc.kappa) => sage.works

\* test.sage as written (kappa = levels, default seed and lamb) has run to
\* its end on plaintexts with a non-zero product and printed Works: True.
C1_Witness ==
  /\ sage.pc = "done" /\ sage.works
  /\ sage.levels = Enc.kappa /\ sage.levels >= 2
  /\ Enc.rand.seed = DefaultSeed /\ Enc.lamb = DefaultLamb
  /\ sage.result # 0 /\ \E i \in 1..sage.levels : sage.plaintext[i] > 1

\* C1 (as stated): for every k <= kappa the difference zero-tests as zero.
C1_ProductZeroTests == sage.pc = "done" => sage.works

Intact(rec) ==
  /\ rec.st = "ready"
  /\ rec.params = "ref" /\ rec.rand.init
  /\ rec.rel.params = 0 /\ rec.rel.rand = 0

\* Every Encoding that exists is bound to a Context, and that Context is
\* intact.
BoundToIntact ==
  \A e \in ElemIds : elems[e].live =>
    elems[e].parent \in CtxIds /\ Intact(ctx[elems[e].parent])

\* A step that releases something of a Context finds no Encoding bound to
\* it; a result is bound to the left operand's Context; a step that
\* destroys an Encoding releases that Encoding's value and changes neither a
\* Context nor another Encoding.
LifeStep ==
  /\ \A c \in CtxIds : ctx'[c].rel # ctx[c].rel =>
       \A e \in ElemIds : elems[e].live => elems[e].parent # c
  /\ (last'.op \in RingOps /\ last'.out # 0) =>
       /\ elems'[last'.out].live
       /\ elems'[last'.out].parent = elems[last'.a].parent
  /\ \A e \in ElemIds : (elems[e].live /\ ~elems'[e].live) =>
       /\ elems'[e].freed /\ elems'[e].value = Junk
       /\ ctx' = ctx
       /\ \A f \in ElemIds \ {e} : elems'[f] = elems[f]

====
